---------------------------- MODULE Spec2Model ----------------------------
(***************************************************************************)
(* bedmaker: transcript identifier classification (common/tark_api.py),   *)
(* the transcript document store (transcripts/api.py over common/db.py,    *)
(* which delegates to a TinyDB table), the batch fetch of transcripts     *)
(* from the TARK server (common/tark_api.py) and the commands that run     *)
(* inside the store context of the command line (transcripts/cli.py).      *)
(*                                                                         *)
(* Python strings that the code inspects character by character (the raw   *)
(* identifiers) are sequences of one-character strings.  Python None is    *)
(* the value None below; a raised exception is the record Raise(name), a   *)
(* normal return is Return(value).                                         *)
(***************************************************************************)
EXTENDS Integers, Sequences, FiniteSets, TLC

VARIABLES
    raw,        \* the identifier string handed to the classifier
    idOp,       \* which classifier method ran last on raw ("none" at start)
    idRes,      \* what that method returned or raised
    table,      \* TinyDB table: doc_id -> stored document (a dict)
    next_id,    \* TinyDB Table._next_id of the open handle, 0 for None
    op,         \* the store operation performed last
    arg,        \* its arguments
    res,        \* what it returned or raised
    issuedMax,  \* history: greatest identity returned by add since the last
                \* delete_all or re-open of the store (0 if none)
    everMax,    \* history: greatest identity returned by any add so far
    stable_ids, \* the list handed to fetch_multiple_transcripts
    responses,  \* per task: what the TARK server answered (Pending before)
    tasks,      \* per task: what fetch_mane_transcript returned or raised
    results,    \* what the await of fetch_multiple_transcripts produced
    class_attrs,\* attributes assigned on the class SelectedTranscripts
    test,       \* position of test_add_from_empty ("none" when not run)
    cmd,        \* the CLI command of this process and where it stands
    db_handle,  \* the store handle of transcripts_db(): none, open, closed
    clients     \* per identifier: the HTTP client of its fetcher

vars == <<raw, idOp, idRes, table, next_id, op, arg, res, issuedMax, everMax,
          stable_ids, responses, tasks, results, class_attrs, test,
          cmd, db_handle, clients>>
idVars == <<raw, idOp, idRes>>
storeVars == <<table, next_id, op, arg, res, issuedMax, everMax>>
fetchVars == <<stable_ids, responses, tasks, results, class_attrs, test>>
cliVars == <<cmd, db_handle, clients>>

None == "None"
Return(v) == [kind |-> "return", value |-> v]
Raise(e) == [kind |-> "raise", exc |-> e]
Pending == [kind |-> "pending"]     \* an awaitable that has not completed

(***************************************************************************)
(* Bounds                                                                  *)
(***************************************************************************)
MaxTail == 5    \* characters that follow the chosen prefix of an identifier
MaxId == 2      \* identities a store handle hands out before add is cut off

(***************************************************************************)
(* Identifier strings                                                      *)
(***************************************************************************)
Digits == {"0", "1", "2", "3", "4", "5", "6", "7", "8", "9"}
TailChars == {"7", ".", "x"}
Prefixes ==
    { <<>>,
      <<"E", "N", "S", "T">>,
      <<"N", "M", "_">>,
      <<"N", "R", "_">>,
      <<"E", "N", "S">>,
      <<"N", "P", "_">>,
      <<"X", "N", "M", "_">>,
      <<"e", "n", "s", "t">> }
Tails == UNION { [1..n -> TailChars] : n \in 0..MaxTail }
IdInputs == { p \o t : p \in Prefixes, t \in Tails }

\* str.startswith(prefix)
StartsWith(s, p) == Len(s) >= Len(p) /\ SubSeq(s, 1, Len(p)) = p

\* str.isdigit(): non-empty and every character a digit
IsDigit(s) == Len(s) > 0 /\ \A i \in 1..Len(s) : s[i] \in Digits

\* str.split(sep) for a one-character separator
RECURSIVE Split(_, _)
Split(s, sep) ==
    IF \A i \in 1..Len(s) : s[i] # sep
    THEN <<s>>
    ELSE LET i == CHOOSE j \in 1..Len(s) :
                      s[j] = sep /\ \A k \in 1..(j - 1) : s[k] # sep
         IN  <<SubSeq(s, 1, i - 1)>> \o Split(SubSeq(s, i + 1, Len(s)), sep)

\* check_id_type with the "NR_" prefix left out of the RefSeq test
check_id_type_nm_only(stable_id) ==
    IF StartsWith(stable_id, <<"E", "N", "S", "T">>)
    THEN Return("ensembl")
    ELSE IF StartsWith(stable_id, <<"N", "M", "_">>)
    THEN Return("refseq")
    ELSE Raise("InvalidTranscriptId")

\* MANETranscriptFetcher.check_id_type
check_id_type(stable_id) ==
    IF StartsWith(stable_id, <<"E", "N", "S", "T">>)
    THEN Return("ensembl")
    ELSE IF StartsWith(stable_id, <<"N", "M", "_">>)
               \/ StartsWith(stable_id, <<"N", "R", "_">>)
    THEN Return("refseq")
    ELSE Raise("InvalidTranscriptId")

\* is_id_version_included that answers False for anything it cannot read
is_id_version_included_lenient(stable_id) ==
    LET split_stable_id == Split(stable_id, ".")
    IN  IF Len(split_stable_id) = 2 /\ IsDigit(split_stable_id[2])
        THEN Return(TRUE)
        ELSE Return(FALSE)

\* MANETranscriptFetcher.is_id_version_included
is_id_version_included(stable_id) ==
    LET split_stable_id == Split(stable_id, ".")
    IN  IF Len(split_stable_id) = 1
        THEN Return(FALSE)
        ELSE IF Len(split_stable_id) = 2 /\ IsDigit(split_stable_id[2])
        THEN Return(TRUE)
        ELSE Raise("InvalidTranscriptId")


\* MANETranscriptFetcher.check_if_mane_transcript
check_if_mane_transcript(mane_transcript) ==
    Return(mane_transcript.mane_type = None)


(***************************************************************************)
(* Transcript model (common/models.py)                                     *)
(*                                                                         *)
(* The fields kept are the ones the store code reads or that stand for a   *)
(* kind of field: Optional[str] fields default to None, the list fields    *)
(* exons and utrs default to [], request_id and genomic_ranges are         *)
(* required.  The remaining Optional fields of the class (assembly,        *)
(* biotype, checksums, gene_id and its version) behave as gene_name does.  *)
(* fields_set is pydantic's record of the fields the caller supplied.      *)
(***************************************************************************)
TranscriptFields ==
    {"request_id", "ens_stable_id", "ens_stable_id_version",
     "refseq_stable_id", "refseq_stable_id_version", "mane_type",
     "gene_name", "genomic_ranges", "exons", "utrs"}
OptionalFields ==
    {"ens_stable_id", "ens_stable_id_version", "refseq_stable_id",
     "refseq_stable_id_version", "mane_type", "gene_name"}
ListFields == {"exons", "utrs"}

FieldDefault(k) == IF k \in ListFields THEN <<>> ELSE None

\* GenomicRange(loc_start=..., loc_end=...)
GenomicRange(s, e) == [loc_start |-> s, loc_end |-> e]

\* Transcript(**kwargs): supplied fields keep their value, the others their default
Transcript(kwargs) ==
    [k \in TranscriptFields \cup {"fields_set"} |->
        IF k = "fields_set" THEN DOMAIN kwargs
        ELSE IF k \in DOMAIN kwargs THEN kwargs[k]
        ELSE FieldDefault(k)]

\* CommonModel.to_dict: model_dump() gives every field, defaults included
to_dict(t) == [k \in TranscriptFields |-> t[k]]

\* from_dict that takes the scalar fields only and leaves the lists empty
from_dict_scalars_only(data) ==
    Transcript([k \in (DOMAIN data \cap TranscriptFields) \ ListFields |-> data[k]])

\* CommonModel.from_dict: cls(**data); keys that are no field are ignored
from_dict(data) ==
    Transcript([k \in DOMAIN data \cap TranscriptFields |-> data[k]])

\* Python truthiness of an Optional[str]
Truthy(s) == s # None /\ s # ""

\* `v is not None` for the value v stored under key k: only the Optional
\* fields can hold None
IsNotNone(k, v) == IF k \in OptionalFields THEN v # None ELSE TRUE

\* dict.update(changes)
DictUpdate(d, changes) ==
    [k \in DOMAIN d \cup DOMAIN changes |->
        IF k \in DOMAIN changes THEN changes[k] ELSE d[k]]

(***************************************************************************)
(* Inputs                                                                  *)
(***************************************************************************)
ExonList(n) == [i \in 1..n |-> [exon_id |-> i]]
UtrList(n) == [i \in 1..n |-> [utr_id |-> i]]

AddInputs ==
    { Transcript([request_id |-> "placeholder",
                  refseq_stable_id |-> "NM_003722",
                  gene_name |-> "TP63",
                  mane_type |-> "MANE Select",
                  genomic_ranges |-> GenomicRange(120, 180),
                  exons |-> ExonList(2),
                  utrs |-> UtrList(1)]),
      Transcript([request_id |-> "placeholder",
                  refseq_stable_id |-> "NM_000059",
                  ens_stable_id |-> "ENST00000380152",
                  gene_name |-> "BRCA2",
                  mane_type |-> "MANE PLUS CLINICAL",
                  genomic_ranges |-> GenomicRange(150, 250),
                  exons |-> ExonList(1)]),
      Transcript([request_id |-> "placeholder",
                  ens_stable_id |-> "ENST00000264731",
                  gene_name |-> "TP63",
                  genomic_ranges |-> GenomicRange(120, 180)]),
      Transcript([request_id |-> "placeholder",
                  refseq_stable_id |-> "",
                  genomic_ranges |-> GenomicRange(120, 180)]) }

ModInputs ==
    { Transcript([request_id |-> "placeholder",
                  gene_name |-> "TP63L",
                  mane_type |-> "MANE SELECT",
                  genomic_ranges |-> GenomicRange(120, 180)]),
      Transcript([request_id |-> "placeholder",
                  refseq_stable_id |-> "",
                  genomic_ranges |-> GenomicRange(150, 250)]) }

TranscriptIds == 1..(MaxId + 1)
ListInputs ==
    { << >>,
      [gene_name |-> "TP63"],
      [location_range |-> <<100, 200>>],
      [gene_name |-> "TP63", location_range |-> <<100, 200>>] }

(***************************************************************************)
(* DB (common/db.py) over a TinyDB table.  table maps doc_id to document;  *)
(* nid is Table._next_id (0 for None).                                     *)
(***************************************************************************)
MaxKey(tb) == CHOOSE m \in DOMAIN tb : \A k \in DOMAIN tb : k <= m

\* _get_next_id that numbers from the size of the table
NextDocId_by_count(tb, nid) == Cardinality(DOMAIN tb) + 1

\* Table._get_next_id as insert uses it: the cached counter when there is
\* one, else one more than the largest key of the table (1 when empty)
NextDocId(tb, nid) ==
    IF nid # 0 THEN nid
    ELSE IF DOMAIN tb = {} THEN 1
    ELSE MaxKey(tb) + 1

\* DB.create: TinyDB insert; returns the new table, counter and doc_id
DB_create(tb, nid, item) ==
    LET doc_id == NextDocId(tb, nid)
    IN  [table |-> [k \in DOMAIN tb \cup {doc_id} |->
                        IF k = doc_id THEN item ELSE tb[k]],
         next_id |-> doc_id + 1,
         doc_id |-> doc_id]

\* DB.read: TinyDB get(doc_id=...); Optional[Dict], None for a missing key
DB_read(tb, transcript_id) ==
    IF transcript_id \in DOMAIN tb
    THEN [is_none |-> FALSE, item |-> tb[transcript_id]]
    ELSE [is_none |-> TRUE]

\* DB.read_all: the documents in key order
RECURSIVE KeysInOrder(_)
KeysInOrder(ks) ==
    IF ks = {} THEN <<>>
    ELSE LET m == CHOOSE x \in ks : \A y \in ks : x <= y
         IN  <<m>> \o KeysInOrder(ks \ {m})
DB_read_all(tb) ==
    LET ks == KeysInOrder(DOMAIN tb)
    IN  [i \in 1..Len(ks) |-> tb[ks[i]]]

\* DB.update: drop the None values, then TinyDB update(changes, doc_ids=[id]),
\* which raises KeyError for a missing key and writes nothing
DB_update(tb, transcript_id, mods) ==
    LET changes == [k \in {x \in DOMAIN mods : IsNotNone(x, mods[x])} |-> mods[k]]
    IN  IF transcript_id \notin DOMAIN tb
        THEN Raise("KeyError")
        ELSE Return([tb EXCEPT ![transcript_id] = DictUpdate(@, changes)])

\* DB.delete that passes over a missing key in silence
DB_delete_lenient(tb, transcript_id) ==
    Return([k \in DOMAIN tb \ {transcript_id} |-> tb[k]])

\* DB.delete: TinyDB remove(doc_ids=[id]), KeyError for a missing key
DB_delete(tb, transcript_id) ==
    IF transcript_id \notin DOMAIN tb
    THEN Raise("KeyError")
    ELSE Return([k \in DOMAIN tb \ {transcript_id} |-> tb[k]])

\* DB.delete_all that drops only the newest document
DB_delete_all_newest_only(tb, nid) ==
    [table |-> IF DOMAIN tb = {} THEN tb
               ELSE [k \in DOMAIN tb \ {MaxKey(tb)} |-> tb[k]],
     next_id |-> 0]

\* DB.delete_all: TinyDB truncate() clears the table and forgets _next_id
DB_delete_all(tb, nid) == [table |-> << >>, next_id |-> 0]

\* DB.count
DB_count(tb) == Cardinality(DOMAIN tb)


(***************************************************************************)
(* transcriptsDB (transcripts/api.py).  Each operator gives the store      *)
(* after the call (table, next_id) and what the call returned or raised.   *)
(***************************************************************************)
Outcome(tb, nid, r) == [table |-> tb, next_id |-> nid, res |-> r]

\* add_transcript without the normalisation of an absent ens_stable_id
add_transcript_ens_as_is(tb, nid, transcript) ==
    IF ~Truthy(transcript.refseq_stable_id)
    THEN Outcome(tb, nid, Raise("MissingRefseqStableId"))
    ELSE LET created == DB_create(tb, nid, to_dict(transcript))
             transcript_id == created.doc_id
             updated == DB_update(created.table, transcript_id,
                                  [id |-> transcript_id])
         IN  Outcome(updated.value, created.next_id, Return(transcript_id))

\* add_transcript whose guard tests for None only, letting "" through
add_transcript_none_only(tb, nid, transcript) ==
    IF transcript.refseq_stable_id = None
    THEN Outcome(tb, nid, Raise("MissingRefseqStableId"))
    ELSE LET t1 == IF transcript.ens_stable_id = None
                   THEN [transcript EXCEPT !.ens_stable_id = ""]
                   ELSE transcript
             created == DB_create(tb, nid, to_dict(t1))
             transcript_id == created.doc_id
             updated == DB_update(created.table, transcript_id,
                                  [id |-> transcript_id])
         IN  Outcome(updated.value, created.next_id, Return(transcript_id))

\* transcriptsDB.add_transcript
add_transcript(tb, nid, transcript) ==
    IF ~Truthy(transcript.refseq_stable_id)
    THEN Outcome(tb, nid, Raise("MissingRefseqStableId"))
    ELSE LET t1 == IF transcript.ens_stable_id = None
                   THEN [transcript EXCEPT !.ens_stable_id = ""]
                   ELSE transcript
             created == DB_create(tb, nid, to_dict(t1))
             transcript_id == created.doc_id
             updated == DB_update(created.table, transcript_id,
                                  [id |-> transcript_id])
         IN  Outcome(updated.value, created.next_id, Return(transcript_id))

\* transcriptsDB.get_transcript
get_transcript(tb, nid, transcript_id) ==
    LET db_item == DB_read(tb, transcript_id)
    IN  IF ~db_item.is_none
        THEN Outcome(tb, nid, Return(from_dict(db_item.item)))
        ELSE Outcome(tb, nid, Raise("InvalidTranscriptId"))

\* Python list comprehension [x for x in xs if keep(x)], keep given as a set
RECURSIVE Filter(_, _)
Filter(xs, keep) ==
    IF xs = <<>> THEN <<>>
    ELSE (IF Head(xs) \in keep THEN <<Head(xs)>> ELSE <<>>)
            \o Filter(Tail(xs), keep)

\* transcriptsDB.list_transcripts(gene_name=None, location_range=None):
\* kwargs holds the filters the caller passed, an absent key being None
list_transcripts(tb, nid, kwargs) ==
    LET all_transcripts == DB_read_all(tb)
        docs == {all_transcripts[i] : i \in 1..Len(all_transcripts)}
        by_gene ==
            IF "gene_name" \in DOMAIN kwargs
            THEN Filter(all_transcripts,
                        {t \in docs : t["gene_name"] = kwargs.gene_name})
            ELSE all_transcripts
        by_range ==
            IF "location_range" \in DOMAIN kwargs
            THEN LET start == kwargs.location_range[1]
                     end == kwargs.location_range[2]
                 IN  Filter(by_gene,
                        {t \in docs :
                            /\ "location_start" \in DOMAIN t
                            /\ "location_end" \in DOMAIN t
                            /\ start <= t["location_start"]
                            /\ t["location_start"] <= end
                            /\ start <= t["location_end"]
                            /\ t["location_end"] <= end})
            ELSE by_gene
    IN  Outcome(tb, nid, Return([i \in 1..Len(by_range) |-> from_dict(by_range[i])]))

\* transcriptsDB.count
count(tb) == DB_count(tb)

\* transcriptsDB.update_transcript
update_transcript(tb, nid, transcript_id, transcript_mods) ==
    LET updated == DB_update(tb, transcript_id, to_dict(transcript_mods))
    IN  IF updated.kind = "raise"
        THEN Outcome(tb, nid, Raise("InvalidTranscriptId"))
        ELSE Outcome(updated.value, nid, Return(None))

\* transcriptsDB.delete_transcript
delete_transcript(tb, nid, transcript_id) ==
    LET deleted == DB_delete(tb, transcript_id)
    IN  IF deleted.kind = "raise"
        THEN Outcome(tb, nid, Raise("InvalidTranscriptId"))
        ELSE Outcome(deleted.value, nid, Return(None))

\* transcriptsDB.delete_all
delete_all(tb, nid) ==
    LET cleared == DB_delete_all(tb, nid)
    IN  Outcome(cleared.table, cleared.next_id, Return(None))


\* one pass of the loop of stats over the documents still to visit
RECURSIVE StatsLoop(_, _)
StatsLoop(docs, acc) ==
    IF docs = << >> THEN acc
    ELSE LET transcript == Head(docs)
             exons == IF "exons" \in DOMAIN transcript
                      THEN transcript["exons"] ELSE << >>
             mane_type == IF "mane_type" \in DOMAIN transcript
                          THEN transcript["mane_type"] ELSE None
         IN  StatsLoop(Tail(docs),
                [total_transcripts |-> acc.total_transcripts + 1,
                 total_exons |-> acc.total_exons + Len(exons),
                 MANE_transcripts |->
                    IF mane_type = "MANE SELECT"
                    THEN acc.MANE_transcripts + 1 ELSE acc.MANE_transcripts,
                 clinical_plus_transcripts |->
                    IF mane_type # "MANE SELECT" /\ mane_type = "MANE PLUS CLINICAL"
                    THEN acc.clinical_plus_transcripts + 1
                    ELSE acc.clinical_plus_transcripts])

\* stats that matches the label in the upstream's spelling, "MANE Select"
stats_upstream_label(tb, nid) ==
    LET all == DB_read_all(tb)
    IN  Outcome(tb, nid, Return(
            [total_transcripts |-> Len(all),
             total_exons |-> StatsLoop(all,
                    [total_transcripts |-> 0, MANE_transcripts |-> 0,
                     clinical_plus_transcripts |-> 0, total_exons |-> 0]).total_exons,
             MANE_transcripts |->
                Cardinality({i \in 1..Len(all) : all[i]["mane_type"] = "MANE Select"}),
             clinical_plus_transcripts |->
                Cardinality({i \in 1..Len(all) :
                                all[i]["mane_type"] = "MANE Plus Clinical"})]))

\* transcriptsDB.stats
stats(tb, nid) ==
    Outcome(tb, nid, Return(StatsLoop(DB_read_all(tb),
        [total_transcripts |-> 0, MANE_transcripts |-> 0,
         clinical_plus_transcripts |-> 0, total_exons |-> 0])))

(***************************************************************************)
(* MANETranscriptFetcher (common/tark_api.py): the TARK server, the result *)
(* object and the parsing of one JSON answer.                              *)
(*                                                                         *)
(* A JSON object is a record, a JSON array a sequence.  An upstream record *)
(* keeps the keys parse_transcript_data reads for the modelled Transcript  *)
(* fields; its stable_id is a sequence of characters because check_id_type *)
(* inspects it.                                                            *)
(***************************************************************************)
MaxBatch == 2   \* identifiers in one call of fetch_multiple_transcripts

\* dict.get(key, default)
DictGet(d, key, default) == IF key \in DOMAIN d THEN d[key] ELSE default

\* records the TARK server can hold for an identifier
RecSelect ==
    [stable_id |-> <<"N", "M", "_", "7">>,
     stable_id_version |-> 4,
     mane_transcript_type |-> "MANE Select",
     genes |-> <<[name |-> "TP63"]>>,
     loc_start |-> 120, loc_end |-> 180,
     exons |-> <<[exon_id |-> 1], [exon_id |-> 2]>>,
     utrs |-> <<[exon_id |-> 1]>>]
RecClinical ==
    [stable_id |-> <<"E", "N", "S", "T", "7">>,
     stable_id_version |-> 9,
     mane_transcript_type |-> "MANE Plus Clinical",
     genes |-> <<[name |-> "TP63"]>>,
     loc_start |-> 130, loc_end |-> 170,
     exons |-> <<[exon_id |-> 3]>>]
RecPlain ==
    [stable_id |-> <<"N", "R", "_", "7", ".", "7">>,
     stable_id_version |-> 7,
     genes |-> <<[name |-> "RMRP"]>>,
     loc_start |-> 150, loc_end |-> 250]
RecPlainOlder ==
    [stable_id |-> <<"N", "R", "_", "7", ".", "1">>,
     stable_id_version |-> 1,
     genes |-> <<[name |-> "RMRP"]>>,
     loc_start |-> 150, loc_end |-> 240]
RecForeign ==
    [stable_id |-> <<"x", "7">>,
     stable_id_version |-> 1,
     mane_transcript_type |-> "MANE Select",
     loc_start |-> 1, loc_end |-> 2]

ResultSets ==
    { << >>, <<RecSelect>>, <<RecSelect, RecClinical>>, <<RecPlain>>,
      <<RecPlain, RecPlainOlder>>, <<RecForeign>> }

\* what awaiting client.get can produce: an exception of the transport, or a
\* response whose body is JSON or not (the status code is not looked at)
Answers ==
    { [kind |-> "transport_error"] }
    \cup { [kind |-> "response", status_code |-> 500, is_json |-> FALSE] }
    \cup { [kind |-> "response", status_code |-> 200, is_json |-> TRUE,
            data |-> [results |-> rs]] : rs \in ResultSets }

StableIdInputs == {"NM_003722", "NM_000059", "NR_023343.1"}
RECURSIVE SeqsUpTo(_, _)
SeqsUpTo(S, n) ==
    IF n = 0 THEN { << >> }
    ELSE LET shorter == SeqsUpTo(S, n - 1)
         IN  shorter \cup {Append(q, x) : q \in shorter, x \in S}
Batches == SeqsUpTo(StableIdInputs, MaxBatch)

\* fields of the dataclass SelectedTranscripts: the ones without a default
\* are required arguments of the generated __init__
RequiredFields == {"requested_id", "mane_transcript", "clinical_plus_transcript"}
DefaultedFields ==
    {"mane_transcript_found", "clinical_plus_transcript_found",
     "is_mane_transcript_requested", "is_clinical_plus_requested",
     "are_additional_transcripts_requested", "non_coding_gene"}

\* SelectedTranscripts(**kwargs)
SelectedTranscripts(kwargs) ==
    IF ~(RequiredFields \subseteq DOMAIN kwargs)
    THEN Raise("TypeError")
    ELSE Return([k \in RequiredFields \cup DefaultedFields |->
                    IF k \in DOMAIN kwargs THEN kwargs[k] ELSE FALSE])

\* the body of the loop of parse_transcript_data over data["results"]; cls
\* holds the attributes assigned on the class SelectedTranscripts
RECURSIVE ParseLoop(_, _)
ParseLoop(rs, cls) ==
    IF Len(rs) = 0 THEN [res |-> Return(None), cls |-> cls]
    ELSE LET result == Head(rs) IN
      IF "mane_transcript_type" \notin DOMAIN result
      THEN ParseLoop(Tail(rs), cls)
      ELSE
        LET exons == [i \in DOMAIN DictGet(result, "exons", << >>) |->
                        [exon_id |-> DictGet(result.exons[i], "exon_id", None)]]
            utrs == [i \in DOMAIN DictGet(result, "utrs", << >>) |->
                        [utr_id |-> DictGet(result.utrs[i], "exon_id", None)]]
            id_type == check_id_type(DictGet(result, "stable_id", << >>))
        IN  IF id_type.kind = "raise"
            THEN [res |-> id_type, cls |-> cls]
            ELSE
              LET selected_transcript ==
                    Transcript(
                      [request_id |-> "placeholder",
                       ens_stable_id |->
                          IF id_type.value = "ensembl"
                          THEN DictGet(result, "stable_id", None) ELSE None,
                       ens_stable_id_version |->
                          IF id_type.value = "ensembl"
                          THEN DictGet(result, "stable_id_version", None)
                          ELSE None,
                       refseq_stable_id |->
                          IF id_type.value = "refseq"
                          THEN DictGet(result, "stable_id", None) ELSE None,
                       refseq_stable_id_version |->
                          IF id_type.value = "refseq"
                          THEN DictGet(result, "stable_id_version", None)
                          ELSE None,
                       mane_type |-> DictGet(result, "mane_transcript_type", None),
                       gene_name |->
                          DictGet(DictGet(result, "genes", <<<< >>>>)[1],
                                  "name", None),
                       genomic_ranges |->
                          GenomicRange(DictGet(result, "loc_start", None),
                                       DictGet(result, "loc_end", None)),
                       exons |-> exons,
                       utrs |-> utrs])
                  assigned ==
                    IF result.mane_transcript_type = "MANE Select"
                    THEN DictUpdate(cls,
                            [mane_transcript |-> selected_transcript,
                             is_mane_transcript |-> TRUE])
                    ELSE IF result.mane_transcript_type = "MANE Plus Clinical"
                    THEN DictUpdate(cls,
                            [clinical_plus_transcript |-> selected_transcript,
                             is_clinical_plus_transcript |-> TRUE])
                    ELSE cls
              IN  ParseLoop(Tail(rs), assigned)

\* MANETranscriptFetcher.parse_transcript_data
parse_transcript_data(data, cls) ==
    LET transcripts == SelectedTranscripts(<< >>)
    IN  IF transcripts.kind = "raise"
        THEN [res |-> transcripts, cls |-> cls]
        ELSE LET loop == ParseLoop(DictGet(data, "results", << >>), cls)
             IN  IF loop.res.kind = "raise"
                 THEN loop
                 ELSE [res |-> transcripts, cls |-> loop.cls]

\* MANETranscriptFetcher.fetch_mane_transcript, from the answer of the server
fetch_mane_transcript(answer, cls) ==
    IF answer.kind = "transport_error"
    THEN [res |-> Raise("TransportError"), cls |-> cls]
    ELSE IF ~answer.is_json
    THEN [res |-> Raise("JSONDecodeError"), cls |-> cls]
    ELSE parse_transcript_data(answer.data, cls)

\* asyncio.gather(*tasks) once every task has returned
gather(ts) == Return([i \in DOMAIN ts |-> ts[i].value])

\* the loop of test_add_from_empty over the fetched list; a
\* SelectedTranscripts object has no attribute refseq_stable_id
RECURSIVE AddEach(_, _, _)
AddEach(tb, nid, transcript_list) ==
    IF Len(transcript_list) = 0 THEN Outcome(tb, nid, Return(None))
    ELSE LET transcript == Head(transcript_list)
             out == IF "refseq_stable_id" \in DOMAIN transcript
                    THEN add_transcript(tb, nid, transcript)
                    ELSE Outcome(tb, nid, Raise("AttributeError"))
         IN  IF out.res.kind = "raise" THEN out
             ELSE AddEach(out.table, out.next_id, Tail(transcript_list))

(***************************************************************************)
(* The command line (transcripts/cli.py)                                   *)
(***************************************************************************)
\* what one call of fetch_and_add_transcript leaves behind: the store, the
\* class attributes, what was logged, what the call returned or raised and
\* the state of the fetcher's HTTP client
Trace(out, cls, r) ==
    [table |-> out.table, next_id |-> out.next_id, cls |-> cls,
     logged |-> out.res, res |-> r, client |-> "closed"]

\* the try block of fetch_and_add_transcript: a SelectedTranscripts object
\* is truthy, and add_transcript reads its attribute refseq_stable_id
FetchThenAdd(tb, nid, answer, cls) ==
    LET transcript == fetch_mane_transcript(answer, cls).res
    IN  IF transcript.kind = "raise"
        THEN Outcome(tb, nid, transcript)
        ELSE IF "refseq_stable_id" \in DOMAIN transcript.value
        THEN add_transcript(tb, nid, transcript.value)
        ELSE Outcome(tb, nid, Raise("AttributeError"))

\* fetch_and_add_transcript without its except clause
fetch_and_add_transcript_no_except(tb, nid, answer, cls) ==
    LET out == FetchThenAdd(tb, nid, answer, cls)
    IN  Trace(out, fetch_mane_transcript(answer, cls).cls,
              IF out.res.kind = "raise" THEN out.res ELSE Return(None))

\* fetch_and_add_transcript: `except Exception` logs what the try block
\* raised, `finally` closes the client of the fetcher
fetch_and_add_transcript(tb, nid, answer, cls) ==
    LET out == FetchThenAdd(tb, nid, answer, cls)
    IN  Trace(out, fetch_mane_transcript(answer, cls).cls, Return(None))

\* the body of the command `list`: every listed transcript is asked for
\* loc_region, an attribute Transcript does not have
list_command(tb, nid) ==
    LET the_transcripts == list_transcripts(tb, nid, << >>).res.value
    IN  IF Len(the_transcripts) > 0
        THEN Raise("AttributeError")
        ELSE Return(None)

\* the stores a command can find: filled through add_transcript
StoresAfterOne ==
    {add_transcript(<< >>, 0, t).table :
        t \in {u \in AddInputs : Truthy(u.refseq_stable_id)}}
StoresAfterTwo ==
    {add_transcript(tb, 0, t).table :
        tb \in StoresAfterOne,
        t \in {u \in AddInputs : Truthy(u.refseq_stable_id)}}
InitialStores == { << >> } \cup StoresAfterOne \cup StoresAfterTwo

Commands == {"add", "list", "count"}

(***************************************************************************)
(* Identifier classification: one raw string, the two methods applied.     *)
(***************************************************************************)
StoreInit ==
    /\ table = << >>
    /\ next_id = 0
    /\ op = "open"
    /\ arg = << >>
    /\ res = Return(None)
    /\ issuedMax = 0
    /\ everMax = 0

\* no fetch is under way
FetchIdle ==
    /\ stable_ids = << >>
    /\ responses = << >>
    /\ tasks = << >>
    /\ results = Pending
    /\ class_attrs = << >>
    /\ test = "none"

\* no CLI command is running
CliIdle ==
    /\ cmd = [name |-> "none", pc |-> "none", pos |-> 1]
    /\ db_handle = "none"
    /\ clients = << >>

InitId ==
    /\ raw \in IdInputs
    /\ idOp = "none"
    /\ idRes = Return(None)
    /\ StoreInit
    /\ FetchIdle
    /\ CliIdle

CheckIdType ==
    /\ idOp' = "check_id_type"
    /\ idRes' = check_id_type(raw)
    /\ UNCHANGED <<raw, storeVars, fetchVars, cliVars>>

IsIdVersionIncluded ==
    /\ idOp' = "is_id_version_included"
    /\ idRes' = is_id_version_included(raw)
    /\ UNCHANGED <<raw, storeVars, fetchVars, cliVars>>

NextId == CheckIdType \/ IsIdVersionIncluded

SpecId == InitId /\ [][NextId]_vars

(***************************************************************************)
(* The transcript store: one open handle on the store file, the calls of   *)
(* transcriptsDB made on it, and the handle being closed and opened again  *)
(* (cli.transcripts_db opens a new one for every command).                 *)
(***************************************************************************)
Max(a, b) == IF a >= b THEN a ELSE b

Init ==
    /\ raw = << >>
    /\ idOp = "none"
    /\ idRes = Return(None)
    /\ StoreInit
    /\ FetchIdle
    /\ CliIdle

Apply(out) ==
    /\ table' = out.table
    /\ next_id' = out.next_id
    /\ res' = out.res

Add(transcript) ==
    LET out == add_transcript(table, next_id, transcript)
    IN  /\ Truthy(transcript.refseq_stable_id) => NextDocId(table, next_id) <= MaxId
        /\ op' = "add"
        /\ arg' = [transcript |-> transcript]
        /\ Apply(out)
        /\ issuedMax' = IF out.res.kind = "return"
                        THEN Max(issuedMax, out.res.value) ELSE issuedMax
        /\ everMax' = IF out.res.kind = "return"
                      THEN Max(everMax, out.res.value) ELSE everMax
        /\ UNCHANGED <<idVars, fetchVars, cliVars>>

Get(transcript_id) ==
    /\ op' = "get"
    /\ arg' = [transcript_id |-> transcript_id]
    /\ Apply(get_transcript(table, next_id, transcript_id))
    /\ UNCHANGED <<issuedMax, everMax, idVars, fetchVars, cliVars>>

List(kwargs) ==
    /\ op' = "list"
    /\ arg' = kwargs
    /\ Apply(list_transcripts(table, next_id, kwargs))
    /\ UNCHANGED <<issuedMax, everMax, idVars, fetchVars, cliVars>>

Update(transcript_id, transcript_mods) ==
    /\ op' = "update"
    /\ arg' = [transcript_id |-> transcript_id, transcript_mods |-> transcript_mods]
    /\ Apply(update_transcript(table, next_id, transcript_id, transcript_mods))
    /\ UNCHANGED <<issuedMax, everMax, idVars, fetchVars, cliVars>>

Delete(transcript_id) ==
    /\ op' = "delete"
    /\ arg' = [transcript_id |-> transcript_id]
    /\ Apply(delete_transcript(table, next_id, transcript_id))
    /\ UNCHANGED <<issuedMax, everMax, idVars, fetchVars, cliVars>>

DeleteAll ==
    /\ op' = "delete_all"
    /\ arg' = << >>
    /\ Apply(delete_all(table, next_id))
    /\ issuedMax' = 0
    /\ UNCHANGED <<everMax, idVars, fetchVars, cliVars>>

Stats ==
    /\ op' = "stats"
    /\ arg' = << >>
    /\ Apply(stats(table, next_id))
    /\ UNCHANGED <<issuedMax, everMax, idVars, fetchVars, cliVars>>

\* transcripts_db(): the handle is closed and a new transcriptsDB is built on
\* the same file; the new TinyDB table has no cached _next_id
Open ==
    /\ op' = "open"
    /\ arg' = << >>
    /\ res' = Return(None)
    /\ next_id' = 0
    /\ issuedMax' = 0
    /\ UNCHANGED <<table, everMax, idVars, fetchVars, cliVars>>

Next ==
    \/ \E transcript \in AddInputs : Add(transcript)
    \/ \E transcript_id \in TranscriptIds : Get(transcript_id)
    \/ \E kwargs \in ListInputs : List(kwargs)
    \/ \E transcript_id \in TranscriptIds, transcript_mods \in ModInputs :
            Update(transcript_id, transcript_mods)
    \/ \E transcript_id \in TranscriptIds : Delete(transcript_id)
    \/ DeleteAll
    \/ Stats
    \/ Open

Spec == Init /\ [][Next]_vars

(***************************************************************************)
(* test_add_from_empty: a batch fetch, then every result added to an empty *)
(* store.  Each task of the batch suspends once, at client.get; what       *)
(* follows the answer runs without suspension.                             *)
(***************************************************************************)
InitFetch ==
    /\ raw = << >>
    /\ idOp = "none"
    /\ idRes = Return(None)
    /\ StoreInit
    /\ stable_ids \in Batches
    /\ responses = [i \in DOMAIN stable_ids |-> Pending]
    /\ tasks = [i \in DOMAIN stable_ids |-> Pending]
    /\ results = Pending
    /\ class_attrs = << >>
    /\ test = "awaiting"
    /\ CliIdle

\* the answer for task i arrives and the task runs to its end; gather hands
\* the first exception to the awaiting caller, the other tasks keep running
Respond(i, answer) ==
    LET out == fetch_mane_transcript(answer, class_attrs)
    IN  /\ tasks[i].kind = "pending"
        /\ responses' = [responses EXCEPT ![i] = answer]
        /\ tasks' = [tasks EXCEPT ![i] = out.res]
        /\ class_attrs' = out.cls
        /\ results' = IF results.kind = "pending" /\ out.res.kind = "raise"
                      THEN out.res ELSE results
        /\ UNCHANGED <<stable_ids, test, idVars, storeVars, cliVars>>

\* every task has returned: the await in fetch_multiple_transcripts yields
GatherReturn ==
    /\ results.kind = "pending"
    /\ \A i \in DOMAIN tasks : tasks[i].kind = "return"
    /\ results' = gather(tasks)
    /\ UNCHANGED <<stable_ids, responses, tasks, class_attrs, test,
                   idVars, storeVars, cliVars>>

\* the test after its await returned: the adds and the final assert
TestAdds ==
    /\ test = "awaiting"
    /\ results.kind = "return"
    /\ LET out == AddEach(table, next_id, results.value)
       IN  /\ op' = "test_add_from_empty"
           /\ arg' = << >>
           /\ Apply(out)
           /\ issuedMax' = IF out.table # table
                           THEN Max(issuedMax, MaxKey(out.table)) ELSE issuedMax
           /\ everMax' = IF out.table # table
                         THEN Max(everMax, MaxKey(out.table)) ELSE everMax
           /\ test' = IF out.res.kind = "raise" THEN "error"
                      ELSE IF count(out.table) = Len(stable_ids)
                      THEN "passed" ELSE "failed"
    /\ UNCHANGED <<stable_ids, responses, tasks, results, class_attrs, idVars, cliVars>>

\* the await raised: the test ends in an error
TestError ==
    /\ test = "awaiting"
    /\ results.kind = "raise"
    /\ test' = "error"
    /\ UNCHANGED <<stable_ids, responses, tasks, results, class_attrs,
                   idVars, storeVars, cliVars>>

NextFetch ==
    \/ \E i \in DOMAIN tasks, answer \in Answers : Respond(i, answer)
    \/ GatherReturn
    \/ TestAdds
    \/ TestError

SpecFetch == InitFetch /\ [][NextFetch]_vars

(***************************************************************************)
(* One run of the command line: a command enters the block of             *)
(* `with transcripts_db() as db`, runs its body and leaves the block.      *)
(* asyncio.run(fetch_and_add_transcript(...)) runs one coroutine to its    *)
(* end before the loop goes on.                                            *)
(***************************************************************************)
InitCli ==
    /\ raw = << >>
    /\ idOp = "none"
    /\ idRes = Return(None)
    /\ table \in InitialStores
    /\ next_id = 0
    /\ op = "open"
    /\ arg = << >>
    /\ res = Return(None)
    /\ issuedMax = 0
    /\ everMax = 0
    /\ cmd \in {[name |-> n, pc |-> "start", pos |-> 1] : n \in Commands}
    /\ stable_ids \in Batches
    /\ cmd.name # "add" => stable_ids = << >>
    /\ responses = [i \in DOMAIN stable_ids |-> Pending]
    /\ tasks = [i \in DOMAIN stable_ids |-> Pending]
    /\ clients = [i \in DOMAIN stable_ids |-> "none"]
    /\ results = Pending
    /\ class_attrs = << >>
    /\ test = "none"
    /\ db_handle = "none"

\* transcripts_db() up to its yield
EnterBlock ==
    /\ cmd.pc = "start"
    /\ db_handle' = "open"
    /\ next_id' = 0
    /\ cmd' = [cmd EXCEPT !.pc = IF cmd.name = "add" /\ Len(stable_ids) = 0
                                 THEN "exit" ELSE "block"]
    /\ UNCHANGED <<table, op, arg, res, issuedMax, everMax, clients,
                   idVars, fetchVars>>

\* one turn of the loop of add_ids / add_from_file
FetchAndAdd(answer) ==
    LET i == cmd.pos
        out == fetch_and_add_transcript(table, next_id, answer, class_attrs)
    IN  /\ cmd.name = "add"
        /\ cmd.pc = "block"
        /\ op' = "fetch_and_add_transcript"
        /\ arg' = [stable_id |-> stable_ids[i]]
        /\ Apply(out)
        /\ issuedMax' = IF out.table # table
                        THEN Max(issuedMax, MaxKey(out.table)) ELSE issuedMax
        /\ everMax' = IF out.table # table
                      THEN Max(everMax, MaxKey(out.table)) ELSE everMax
        /\ responses' = [responses EXCEPT ![i] = answer]
        /\ tasks' = [tasks EXCEPT ![i] = out.logged]
        /\ clients' = [clients EXCEPT ![i] = out.client]
        /\ class_attrs' = out.cls
        /\ cmd' = IF out.res.kind = "raise"
                  THEN [cmd EXCEPT !.pc = "raised"]
                  ELSE [cmd EXCEPT !.pos = i + 1,
                                   !.pc = IF i + 1 > Len(stable_ids)
                                          THEN "exit" ELSE "block"]
        /\ UNCHANGED <<stable_ids, results, test, db_handle, idVars>>

\* the body of the command `list`
ListCommand ==
    /\ cmd.name = "list"
    /\ cmd.pc = "block"
    /\ op' = "list"
    /\ arg' = << >>
    /\ res' = list_command(table, next_id)
    /\ cmd' = [cmd EXCEPT !.pc = IF res'.kind = "raise"
                                 THEN "raised" ELSE "exit"]
    /\ UNCHANGED <<table, next_id, issuedMax, everMax, db_handle, clients,
                   idVars, fetchVars>>

\* the body of the command `count`
CountCommand ==
    /\ cmd.name = "count"
    /\ cmd.pc = "block"
    /\ op' = "count"
    /\ arg' = << >>
    /\ res' = Return(count(table))
    /\ cmd' = [cmd EXCEPT !.pc = "exit"]
    /\ UNCHANGED <<table, next_id, issuedMax, everMax, db_handle, clients,
                   idVars, fetchVars>>

\* the block is left: transcripts_db() resumes after its yield and closes
\* the store, or has the exception of the block thrown at its yield
ExitBlock ==
    /\ cmd.pc \in {"exit", "raised"}
    /\ db_handle' = IF cmd.pc = "exit" THEN "closed" ELSE db_handle
    /\ cmd' = [cmd EXCEPT !.pc = IF cmd.pc = "exit" THEN "done" ELSE "failed"]
    /\ UNCHANGED <<clients, idVars, storeVars, fetchVars>>

NextCli ==
    \/ EnterBlock
    \/ \E answer \in Answers : FetchAndAdd(answer)
    \/ ListCommand
    \/ CountCommand
    \/ ExitBlock

SpecCli == InitCli /\ [][NextCli]_vars




(***************************************************************************)
(* check_if_mane_transcript applied to one transcript.                     *)
(***************************************************************************)
ManeTypeInputs == {None, "MANE Select", "MANE Plus Clinical", "MANE SELECT"}
GeneNameInputs == {None, "TP63", "BRCA2", "RMRP"}
RefseqInputs == {None, "NM_003722", "NM_000059", "NR_023343"}
ManeInputs ==
    { Transcript([request_id |-> "placeholder",
                  refseq_stable_id |-> r,
                  gene_name |-> g,
                  mane_type |-> m,
                  genomic_ranges |-> GenomicRange(120, 180)]) :
        r \in RefseqInputs, g \in GeneNameInputs, m \in ManeTypeInputs }

InitMane ==
    /\ raw = << >>
    /\ idOp = "none"
    /\ idRes = Return(None)
    /\ table = << >>
    /\ next_id = 0
    /\ op = "none"
    /\ arg \in {[transcript |-> t] : t \in ManeInputs}
    /\ res = Return(None)
    /\ issuedMax = 0
    /\ everMax = 0
    /\ FetchIdle
    /\ CliIdle

CheckIfManeTranscript ==
    /\ op = "none"
    /\ op' = "check_if_mane_transcript"
    /\ res' = check_if_mane_transcript(arg.transcript)
    /\ UNCHANGED <<arg, table, next_id, issuedMax, everMax, idVars, fetchVars, cliVars>>

NextMane == CheckIfManeTranscript

SpecMane == InitMane /\ [][NextMane]_vars

(***************************************************************************)
(* Properties of the identifier classification (checked under SpecId)      *)
(***************************************************************************)
ENST == <<"E", "N", "S", "T">>
NM == <<"N", "M", "_">>
NR == <<"N", "R", "_">>

\* the characters of s from position n on
From(s, n) == SubSeq(s, n, Len(s))

\* positions of '.' in s
DotPositions(s) == {i \in 1..Len(s) : s[i] = "."}

\* s has exactly one '.', and what follows it is a non-empty run of digits
HasOneDigitSuffix(s) ==
    /\ Cardinality(DotPositions(s)) = 1
    /\ \E i \in DotPositions(s) : IsDigit(From(s, i + 1))

\* s has a '.', but not as a single well-formed version suffix
MalformedVersion(s) == DotPositions(s) # {} /\ ~HasOneDigitSuffix(s)

Raised(r, e) == r.kind = "raise" /\ r.exc = e
Returned(r, v) == r.kind = "return" /\ r.value = v

\* every character of s is a digit (s may be empty)
AllDigits(s) == \A i \in 1..Len(s) : s[i] \in Digits

\* C1 as stated: check_id_type returns "ensembl" exactly for 'ENST' followed
\* by digits, "refseq" exactly for 'NM_' or 'NR_' followed by digits, and
\* raises InvalidTranscriptId for every other string.  ("Followed by digits"
\* is read in the way most favourable to the claim: nothing but digits after
\* the prefix, the bare prefix included.)
C1_DigitsRequired ==
    idOp = "check_id_type" =>
        /\ Returned(idRes, "ensembl") <=>
              (StartsWith(raw, ENST) /\ AllDigits(From(raw, 5)))
        /\ Returned(idRes, "refseq") <=>
              ((StartsWith(raw, NM) \/ StartsWith(raw, NR)) /\ AllDigits(From(raw, 4)))
        /\ Raised(idRes, "InvalidTranscriptId") <=>
              ~(\/ StartsWith(raw, ENST) /\ AllDigits(From(raw, 5))
                \/ (StartsWith(raw, NM) \/ StartsWith(raw, NR)) /\ AllDigits(From(raw, 4)))

\* C1 amended: check_id_type decides by the prefix alone.  It returns
\* "ensembl" exactly when the string starts with 'ENST', "refseq" exactly when
\* it starts with 'NM_' or 'NR_', and raises InvalidTranscriptId exactly when
\* it has none of the three prefixes; what follows the prefix is not looked at.
C1_PrefixDecides ==
    idOp = "check_id_type" =>
        /\ Returned(idRes, "ensembl") <=> (\E t \in Tails : raw = ENST \o t)
        /\ Returned(idRes, "refseq") <=>
              (\E t \in Tails : raw = NM \o t \/ raw = NR \o t)
        /\ Raised(idRes, "InvalidTranscriptId") <=>
              (\A t \in Tails : raw \notin {ENST \o t, NM \o t, NR \o t})

\* an identifier with the prefix and a non-digit after it is classified
C1_Witness ==
    /\ idOp = "check_id_type"
    /\ raw = NR \o <<"x">>
    /\ Returned(idRes, "refseq")

\* C2: is_id_version_included returns False for a string without '.', True
\* for a string with exactly one '.' followed by a non-empty run of digits,
\* and raises InvalidTranscriptId in every other case; it never returns False
\* for a malformed identifier.
C2_VersionDetection ==
    idOp = "is_id_version_included" =>
        /\ DotPositions(raw) = {} => Returned(idRes, FALSE)
        /\ HasOneDigitSuffix(raw) => Returned(idRes, TRUE)
        /\ MalformedVersion(raw) => Raised(idRes, "InvalidTranscriptId")
        /\ Returned(idRes, FALSE) => DotPositions(raw) = {}

\* a string with two dots went through is_id_version_included and was refused
C2_Witness ==
    /\ idOp = "is_id_version_included"
    /\ Cardinality(DotPositions(raw)) >= 2
    /\ StartsWith(raw, ENST)
    /\ Raised(idRes, "InvalidTranscriptId")

\* C3: check_id_type raises InvalidTranscriptId for every string whose version
\* suffix is malformed (two or more '.', or a non-digit suffix after the '.'),
\* whatever its prefix, as is_id_version_included does.
C3_ClassifyRejectsMalformedVersion ==
    (idOp = "check_id_type" /\ MalformedVersion(raw)) =>
        Raised(idRes, "InvalidTranscriptId")


(***************************************************************************)
(* Properties of the transcript store (checked under Spec)                 *)
(***************************************************************************)
\* C4: add_transcript called with a transcript whose refseq_stable_id is
\* empty or None raises MissingRefseqStableId, writes no document, and leaves
\* count() and every stored document unchanged.
C4_AddWithoutRefseqRejected ==
    [][ (op' = "add" /\ arg'.transcript.refseq_stable_id \in {None, ""}) =>
            /\ Raised(res', "MissingRefseqStableId")
            /\ count(table') = count(table)
            /\ table' = table ]_vars

\* an add without refseq_stable_id was refused on a store that holds documents
C4_Witness ==
    /\ op = "add"
    /\ arg.transcript.refseq_stable_id \in {None, ""}
    /\ arg.transcript.ens_stable_id # None
    /\ Raised(res, "MissingRefseqStableId")
    /\ count(table) > 0

\* C5: after any sequence of add, update, delete and delete_all, every stored
\* transcript document has a non-empty refseq_stable_id.
C5_StoredRefseqNonEmpty ==
    \A k \in DOMAIN table : table[k]["refseq_stable_id"] \notin {None, ""}

\* C6 as stated: every identity returned by add is greater than every identity
\* returned by any earlier add on the store, also after delete or delete_all.
C6_IdentityNeverReused ==
    [][ (op' = "add" /\ res'.kind = "return") => res'.value > everMax ]_vars

\* C6 amended: every identity returned by add is greater than every key the
\* store holds at that moment, and greater than every identity returned
\* earlier on the same open handle since the last delete_all; delete_all and
\* re-opening the store restart the numbering at one more than the largest
\* key left, so an identity can be handed out again.
C6_IdentityFreshPerHandle ==
    [][ (op' = "add" /\ res'.kind = "return") =>
            /\ res'.value > issuedMax
            /\ \A k \in DOMAIN table : res'.value > k
            /\ res'.value \in DOMAIN table' ]_vars

\* an add that followed a delete on the same handle got a higher identity
C6_Witness ==
    /\ op = "add"
    /\ res.kind = "return"
    /\ res.value > 1
    /\ next_id # 0
    /\ count(table) = 1

\* C7: get, update and delete called with an identity that is no key of the
\* store raise InvalidTranscriptId and leave the store unchanged.
C7_UnknownIdRejected ==
    [][ (op' \in {"get", "update", "delete"}
            /\ arg'.transcript_id \notin DOMAIN table) =>
            /\ Raised(res', "InvalidTranscriptId")
            /\ table' = table ]_vars

\* a delete of an identity that was handed out and deleted before is refused
C7_Witness ==
    /\ op = "delete"
    /\ arg.transcript_id <= everMax
    /\ arg.transcript_id \notin DOMAIN table
    /\ Raised(res, "InvalidTranscriptId")
    /\ count(table) > 0

\* C8: update on an existing transcript changes only the fields the caller
\* supplied as non-null in mods; every other field of that document (one left
\* at its default, such as exons or utrs, included) and every other document
\* stay as they were.
C8_UpdateTouchesSuppliedFieldsOnly ==
    [][ (op' = "update" /\ res'.kind = "return") =>
            /\ DOMAIN table' = DOMAIN table
            /\ \A k \in DOMAIN table :
                  /\ DOMAIN table'[k] = DOMAIN table[k]
                  /\ \A f \in DOMAIN table[k] :
                        table'[k][f] # table[k][f] =>
                            /\ k = arg'.transcript_id
                            /\ f \in arg'.transcript_mods.fields_set
                            /\ IsNotNone(f, arg'.transcript_mods[f]) ]_vars

\* the documents list_transcripts is to return for its filters: those whose
\* stored range lies within [start, end] and whose gene_name matches
InRange(t, kwargs) ==
    "location_range" \in DOMAIN kwargs =>
        /\ kwargs.location_range[1] <= t["genomic_ranges"].loc_start
        /\ t["genomic_ranges"].loc_end <= kwargs.location_range[2]
GeneMatches(t, kwargs) ==
    "gene_name" \in DOMAIN kwargs => t["gene_name"] = kwargs.gene_name

\* C9: list_transcripts with location_range=(start, end) returns exactly the
\* stored transcripts whose stored range satisfies start <= loc_start and
\* loc_end <= end, and that match gene_name when it is given too.
C9_ListByContainment ==
    (op = "list" /\ "location_range" \in DOMAIN arg) =>
        LET all == DB_read_all(table)
            want == Filter(all, {t \in {all[i] : i \in 1..Len(all)} :
                                    InRange(t, arg) /\ GeneMatches(t, arg)})
        IN  /\ res.kind = "return"
            /\ res.value = [i \in 1..Len(want) |-> from_dict(want[i])]

\* C10: delete_all succeeds from every store state, leaves count() = 0, and
\* applying it twice gives the same store as applying it once.
C10_DeleteAllIdempotent ==
    LET once == delete_all(table, next_id)
        twice == delete_all(once.table, once.next_id)
    IN  /\ once.res = Return(None)
        /\ count(once.table) = 0
        /\ twice = once
        /\ op = "delete_all" => (res = Return(None) /\ count(table) = 0)

\* delete_all ran on a store that had handed out two identities
C10_Witness ==
    /\ op = "delete_all"
    /\ everMax >= 2
    /\ count(table) = 0


\* total number of exons over the documents with the keys ks
RECURSIVE ExonsOf(_, _)
ExonsOf(tb, ks) ==
    IF ks = {} THEN 0
    ELSE LET k == CHOOSE x \in ks : TRUE
         IN  Len(tb[k]["exons"]) + ExonsOf(tb, ks \ {k})

\* the counts stats is to report for the table tb
TotalTranscripts(tb) == Cardinality(DOMAIN tb)
WithManeType(tb, label) ==
    Cardinality({k \in DOMAIN tb : tb[k]["mane_type"] = label})

\* C12 as stated: stats returns a record with the keys total_transcripts,
\* mane_transcripts, clinical_plus_transcripts and total_exons, holding
\* count(), the number of documents whose mane_type is 'MANE SELECT', the
\* number whose mane_type is 'MANE PLUS CLINICAL' and the sum of the exon
\* counts; the store is not modified.
C12_StatsKeysAsStated ==
    [][ op' = "stats" =>
            /\ res'.kind = "return"
            /\ DOMAIN res'.value = {"total_transcripts", "mane_transcripts",
                                    "clinical_plus_transcripts", "total_exons"}
            /\ res'.value["total_transcripts"] = count(table)
            /\ res'.value["mane_transcripts"] = WithManeType(table, "MANE SELECT")
            /\ res'.value["clinical_plus_transcripts"] =
                    WithManeType(table, "MANE PLUS CLINICAL")
            /\ res'.value["total_exons"] = ExonsOf(table, DOMAIN table)
            /\ table' = table ]_vars

\* C12 amended: the same, except that the count of 'MANE SELECT' documents is
\* returned under the key MANE_transcripts (not mane_transcripts).
C12_StatsCounts ==
    [][ op' = "stats" =>
            /\ res'.kind = "return"
            /\ DOMAIN res'.value = {"total_transcripts", "MANE_transcripts",
                                    "clinical_plus_transcripts", "total_exons"}
            /\ res'.value["total_transcripts"] = count(table)
            /\ res'.value["MANE_transcripts"] = WithManeType(table, "MANE SELECT")
            /\ res'.value["clinical_plus_transcripts"] =
                    WithManeType(table, "MANE PLUS CLINICAL")
            /\ res'.value["total_exons"] = ExonsOf(table, DOMAIN table)
            /\ table' = table
            /\ next_id' = next_id ]_vars

\* stats ran over one 'MANE SELECT' and one 'MANE PLUS CLINICAL' document
C12_Witness ==
    /\ op = "stats"
    /\ res.value["total_transcripts"] = 2
    /\ res.value["MANE_transcripts"] = 1
    /\ res.value["clinical_plus_transcripts"] = 1
    /\ res.value["total_exons"] > 0


\* equality of two Transcript objects: pydantic compares the field values
ModelEq(a, b) == \A f \in TranscriptFields : a[f] = b[f]

\* the fields of t that hold a value
Populated(t) == {f \in TranscriptFields : IsNotNone(f, t[f])}

C19_EnsNormalised ==
    /\ (op = "add" /\ Truthy(arg.transcript.refseq_stable_id)
            /\ arg.transcript.ens_stable_id = None) =>
          /\ res.kind = "return"
          /\ res.value \in DOMAIN table
          /\ table[res.value]["ens_stable_id"] = ""
    /\ \A k \in DOMAIN table : table[k]["ens_stable_id"] # None

\* a transcript without Ensembl ID was added next to one that has one
C19_Witness ==
    /\ op = "add"
    /\ res.kind = "return"
    /\ arg.transcript.ens_stable_id = None
    /\ \E k \in DOMAIN table : table[k]["ens_stable_id"] \notin {None, ""}


(***************************************************************************)
(* Properties of the fetcher (checked under SpecFetch)                     *)
(***************************************************************************)
FetchTypeOK ==
    /\ test \in {"awaiting", "passed", "failed", "error"}
    /\ results.kind \in {"pending", "return", "raise"}
    /\ \A i \in DOMAIN tasks : tasks[i].kind \in {"pending", "return", "raise"}

\* the answer is a JSON body the parser can walk: every record with a
\* mane_transcript_type carries a stable_id of a known namespace
Parsable(a) ==
    /\ a.kind = "response"
    /\ a.is_json
    /\ \A j \in DOMAIN a.data.results :
          "mane_transcript_type" \in DOMAIN a.data.results[j] =>
              check_id_type(a.data.results[j].stable_id).kind = "return"

\* the records of mane_transcript_type ty in a parsable answer
RecordsOfType(a, ty) ==
    {j \in DOMAIN a.data.results :
        /\ "mane_transcript_type" \in DOMAIN a.data.results[j]
        /\ a.data.results[j].mane_transcript_type = ty}

\* the identifier resolves: the server holds a MANE Select record for it
Resolvable(a) == Parsable(a) /\ RecordsOfType(a, "MANE Select") # {}

Done(i) == tasks[i].kind # "pending"

\* C11: fetching N resolvable identifiers with fetch_multiple_transcripts and
\* adding every returned result to an empty store leaves count() = N (the
\* test passes).
C11_FetchedThenCounted ==
    (/\ test # "awaiting"
     /\ \A i \in DOMAIN tasks : Done(i) /\ Resolvable(responses[i]))
    => /\ test = "passed"
       /\ count(table) = Len(stable_ids)

\* C13: once every fetch of a batch has completed, however interleaved,
\* fetch_multiple_transcripts has returned one result per identifier, the
\* i-th result being the one of the i-th identifier.
C13_OneResultPerIdInOrder ==
    (/\ \A i \in DOMAIN tasks : Done(i) /\ Parsable(responses[i])
     /\ test # "awaiting")
    => /\ results.kind = "return"
       /\ Len(results.value) = Len(stable_ids)
       /\ \A i \in DOMAIN tasks : results.value[i] = tasks[i].value

\* the upstream fetch failed or its body cannot be parsed
Failed(a) == a.kind = "transport_error" \/ (a.kind = "response" /\ ~a.is_json)

\* C14: no upstream failure escapes fetch_multiple_transcripts as an
\* exception, and an identifier whose fetch failed yields a result with both
\* transcript slots empty.
C14_FailureIsolated ==
    /\ ~(results.kind = "raise"
            /\ results.exc \in {"TransportError", "JSONDecodeError"})
    /\ \A i \in DOMAIN tasks :
          (Done(i) /\ Failed(responses[i])) =>
              /\ tasks[i].kind = "return"
              /\ tasks[i].value.mane_transcript = None
              /\ tasks[i].value.clinical_plus_transcript = None

\* the transcript slot holds the transcript built from record rec
HoldsRecord(slot, rec) ==
    /\ slot # None
    /\ slot.mane_type = rec.mane_transcript_type
    /\ rec.stable_id \in {slot.ens_stable_id, slot.refseq_stable_id}

\* C15: a returned 'MANE Select' record fills mane_transcript and sets
\* mane_transcript_found, a 'MANE Plus Clinical' record fills
\* clinical_plus_transcript and sets clinical_plus_transcript_found; a flag
\* stays false when no record of its type was returned.
C15_FoundFlagsFollowRecords ==
    \A i \in DOMAIN tasks :
        (/\ Done(i)
         /\ Parsable(responses[i])
         /\ RecordsOfType(responses[i], "MANE Select") # {}) =>
            LET a == responses[i]
                sel == RecordsOfType(a, "MANE Select")
                cli == RecordsOfType(a, "MANE Plus Clinical")
            IN  /\ tasks[i].kind = "return"
                /\ tasks[i].value.mane_transcript_found = (sel # {})
                /\ tasks[i].value.clinical_plus_transcript_found = (cli # {})
                /\ \A j \in sel :
                      HoldsRecord(tasks[i].value.mane_transcript,
                                  a.data.results[j])
                /\ \A j \in cli :
                      HoldsRecord(tasks[i].value.clinical_plus_transcript,
                                  a.data.results[j])

\* the answer holds no record with a mane_transcript_type
NoManeRecord(a) ==
    /\ a.kind = "response"
    /\ a.is_json
    /\ \A j \in DOMAIN a.data.results :
          "mane_transcript_type" \notin DOMAIN a.data.results[j]

\* C16: an empty result set, or one without any mane_transcript_type, is
\* resolved without raising, both found flags false.
C16_NoManeRecordNoFailure ==
    \A i \in DOMAIN tasks :
        (Done(i) /\ NoManeRecord(responses[i])) =>
            /\ tasks[i].kind = "return"
            /\ ~tasks[i].value.mane_transcript_found
            /\ ~tasks[i].value.clinical_plus_transcript_found

\* C17: of non-MANE records only, a sole version is retained in the result
\* and two or more versions surface MultipleTranscriptVersions.
C17_NonManeSoleOrAmbiguous ==
    \A i \in DOMAIN tasks :
        (/\ Done(i)
         /\ NoManeRecord(responses[i])
         /\ Len(responses[i].data.results) > 0) =>
            IF Len(responses[i].data.results) = 1
            THEN /\ tasks[i].kind = "return"
                 /\ \E f \in DOMAIN tasks[i].value :
                       /\ f \in {"mane_transcript", "clinical_plus_transcript"}
                       /\ tasks[i].value[f] # None
            ELSE /\ tasks[i].kind = "raise"
                 /\ tasks[i].exc = "MultipleTranscriptVersions"

\* what reading the attributes of a result gives: the attributes of the
\* instance, then those found on the class
Attributes(obj, cls) == DictUpdate(cls, obj)

\* C20: the result of an identifier, as read once the batch is over, is the
\* result that resolving this identifier alone gives: nothing in it comes
\* from another identifier of the batch.
C20_ResultFromOwnRecordsOnly ==
    \A i \in DOMAIN tasks :
        (Done(i) /\ Parsable(responses[i])) =>
            LET alone == fetch_mane_transcript(responses[i], << >>)
            IN  /\ tasks[i].kind = "return"
                /\ alone.res.kind = "return"
                /\ Attributes(tasks[i].value, class_attrs)
                     = Attributes(alone.res.value, alone.cls)

\* the identity fields of transcript t are filled from record rec, in the
\* namespace of the record's own stable_id
IdentityFromRecord(t, rec) ==
    IF StartsWith(rec.stable_id, ENST)
    THEN /\ t.ens_stable_id = rec.stable_id
         /\ t.ens_stable_id_version = rec.stable_id_version
         /\ t.refseq_stable_id = None
         /\ t.refseq_stable_id_version = None
    ELSE /\ t.refseq_stable_id = rec.stable_id
         /\ t.refseq_stable_id_version = rec.stable_id_version
         /\ t.ens_stable_id = None
         /\ t.ens_stable_id_version = None

\* the records of an answer that the parser turns into a Transcript
TurnedIntoTranscript(a) ==
    {j \in DOMAIN a.data.results :
        "mane_transcript_type" \in DOMAIN a.data.results[j]}

\* some record to be turned into a Transcript has a stable_id that is
\* neither ENST nor NM_/NR_
HasForeignRecord(a) ==
    \E j \in TurnedIntoTranscript(a) :
        LET id == a.data.results[j].stable_id
        IN  ~StartsWith(id, ENST) /\ ~StartsWith(id, NM) /\ ~StartsWith(id, NR)

\* C23: parsing an answer with a record of foreign stable_id raises
\* InvalidTranscriptId; otherwise the Transcript made of a record has its
\* ens_* fields (ENST) or its refseq_* fields (NM_/NR_) filled with the
\* record's own stable_id and stable_id_version, the other pair left empty.
\* The transcripts are looked at where the resolution of one identifier
\* leaves them, in the attributes of the class SelectedTranscripts.
C23_NamespaceDecidesIdentityFields ==
    \A i \in DOMAIN tasks :
        (/\ Len(stable_ids) = 1
         /\ Done(i)
         /\ responses[i].kind = "response"
         /\ responses[i].is_json
         /\ TurnedIntoTranscript(responses[i]) # {}) =>
            LET a == responses[i]
            IN  IF HasForeignRecord(a)
                THEN /\ tasks[i].kind = "raise"
                     /\ tasks[i].exc = "InvalidTranscriptId"
                ELSE /\ tasks[i].kind = "return"
                     /\ \A j \in RecordsOfType(a, "MANE Select") :
                           /\ "mane_transcript" \in DOMAIN class_attrs
                           /\ IdentityFromRecord(class_attrs.mane_transcript,
                                                 a.data.results[j])
                     /\ \A j \in RecordsOfType(a, "MANE Plus Clinical") :
                           /\ "clinical_plus_transcript" \in DOMAIN class_attrs
                           /\ IdentityFromRecord(
                                 class_attrs.clinical_plus_transcript,
                                 a.data.results[j])

(***************************************************************************)
(* Properties of check_if_mane_transcript (checked under SpecMane)         *)
(***************************************************************************)
\* C24: check_if_mane_transcript returns true exactly when the mane_type of
\* the transcript is set, and false when it is absent.
C24_TrueExactlyWhenManeTypeSet ==
    op = "check_if_mane_transcript" =>
        /\ res.kind = "return"
        /\ res.value = (arg.transcript.mane_type # None)

(***************************************************************************)
(* Properties of the command line (checked under SpecCli)                  *)
(***************************************************************************)
CliTypeOK ==
    /\ cmd.pc \in {"start", "block", "exit", "raised", "done", "failed"}
    /\ db_handle \in {"none", "open", "closed"}

\* the turn of the loop for identifier i ended in a failure
FailedTurn(i) == tasks[i].kind = "pending" /\ tasks'[i].kind = "raise"

\* C21: in add_ids / add_from_file a failure while fetching or adding one
\* identifier leaves the store as it was (what was added before stays, the
\* failing identifier persists nothing) and the loop goes on to the next
\* identifier: once the command is over every identifier has had its turn.
C21_FailureIsolatedInLoop ==
    /\ [][\A i \in DOMAIN tasks :
            FailedTurn(i) =>
                /\ table' = table
                /\ cmd'.pos = i + 1
                /\ cmd'.pc = IF i < Len(stable_ids) THEN "block" ELSE "exit"
                /\ db_handle' = "open"]_vars
    /\ []((cmd.name = "add" /\ cmd.pc \in {"done", "failed"}) =>
            /\ cmd.pc = "done"
            /\ \A i \in DOMAIN tasks : Done(i))

\* two identifiers were processed over a store that held transcripts: the
\* first failed and the second had its turn all the same
C21_Witness ==
    /\ cmd.name = "add"
    /\ cmd.pc = "done"
    /\ Len(stable_ids) = 2
    /\ tasks[1].kind = "raise"
    /\ Done(2)
    /\ count(table) = 2

\* C22: when a command is over, the store handle of transcripts_db() has
\* been closed, whether its block raised or not, and so has the HTTP client
\* of every fetcher that fetch_and_add_transcript made.
C22_ClosedOnEveryExitPath ==
    cmd.pc \in {"done", "failed"} =>
        /\ db_handle = "closed"
        /\ \A i \in DOMAIN clients : clients[i] # "open"

=============================================================================
